---- MODULE Spec2Model ----
(***************************************************************************)
(* Model of package geoip of xofyarg/goutil: the binary radix tree that    *)
(* maps IPv4 blocks to payloads (Tree.Add, fill, compress, Tree.Lookup,    *)
(* Tree.walk/Dump) and the address helpers (rangeToSubnet, sizeToMask,     *)
(* NewRecordFromCIDR).                                                     *)
(*                                                                         *)
(* Addresses are W bits wide instead of 32; every uint32 operation is      *)
(* taken modulo 2^W.  A node is named by its position: the root is 1 and   *)
(* the node allocated for the 0/1 branch of node n is 2n / 2n+1.  The      *)
(* pointer fields p, l, r are kept explicitly (0 is the nil pointer).      *)
(***************************************************************************)
EXTENDS Integers, Sequences, FiniteSets, TLC

\* Width of an address in bits (32 in the program).
W == 3

\* Largest number of Add calls in one run.
MaxAdds == 3

\* Width of an address in bits for the range decomposition.
RW == 4

\* Largest number of blocks in a set of disjoint blocks inserted in any order.
MaxSet == 3

VARIABLES mem, prev, last, nadds, panicked, flat, low, high, ns, called,
          chosen, pending, stack, cidrs, split, ipnet, rec, wpc, rd

vars == <<mem, prev, last, nadds, panicked, flat, low, high, ns, called,
          chosen, pending, stack, cidrs, split, ipnet, rec, wpc, rd>>

treeVars == <<mem, prev, last, nadds, panicked, flat>>

rangeVars == <<low, high, ns, called>>

orderVars == <<chosen, pending>>

stepVars == <<stack, cidrs, split>>

cidrVars == <<ipnet, rec>>

raceVars == <<wpc, rd>>

(***************************************************************************)
(* Fixed-width unsigned arithmetic.                                        *)
(***************************************************************************)
RECURSIVE Pow2(_)
Pow2(n) == IF n <= 0 THEN 1 ELSE 2 * Pow2(n - 1)

RECURSIVE BitAnd(_, _)
BitAnd(a, b) ==
  IF a = 0 \/ b = 0 THEN 0
  ELSE ((a % 2) * (b % 2)) + 2 * BitAnd(a \div 2, b \div 2)

RECURSIVE BitOr(_, _)
BitOr(a, b) ==
  IF a = 0 THEN b
  ELSE IF b = 0 THEN a
  ELSE (IF (a % 2) + (b % 2) > 0 THEN 1 ELSE 0) + 2 * BitOr(a \div 2, b \div 2)

RECURSIVE BitXor(_, _)
BitXor(a, b) ==
  IF a = 0 THEN b
  ELSE IF b = 0 THEN a
  ELSE (((a % 2) + (b % 2)) % 2) + 2 * BitXor(a \div 2, b \div 2)

\* ^x on a w-bit unsigned integer
BitNot(x, w) == (Pow2(w) - 1) - x

\* x << k on a w-bit unsigned integer (a shift by w or more gives 0)
Shl(x, k, w) == (x * Pow2(k)) % Pow2(w)

\* x - 1 on a w-bit unsigned integer (0 - 1 wraps around)
Dec(x, w) == (x + Pow2(w) - 1) % Pow2(w)

(***************************************************************************)
(* Payloads.  NilPayload is the nil interface value.                       *)
(***************************************************************************)
\* the payloads of the tests, of type ps
TestPayloads == {"A", "B"}

NilPayload == "nil"

Payloads == TestPayloads \cup {NilPayload}

\* payloads of a pointer type that implements Payload: two pointers to values
\* with the same contents, whose Equal compares the contents
PtrPayloads == {"p1", "p2"}

\* a.Equal(b).  ps.Equal of the tests: same dynamic type and same string;
\* Equal of the pointer type: same dynamic type and same contents
Equal(a, b) == IF a \in PtrPayloads THEN b \in PtrPayloads ELSE a = b

vequal(a, b) ==
  IF a = NilPayload /\ b = NilPayload THEN TRUE
  ELSE IF a = NilPayload \/ b = NilPayload THEN FALSE
  ELSE Equal(a, b)

\* Payload.String as Record.String uses it: "-" for a payload that is no Stringer
PayloadString(v) ==
  IF v = NilPayload THEN "-" ELSE IF v \in PtrPayloads THEN "P" ELSE v

(***************************************************************************)
(* Records.                                                                *)
(***************************************************************************)
Addr == 0 .. (Pow2(W) - 1)

\* a mask shifted by the size instead of by the bits left of it
sizeToMaskBySize(n) == Shl(Pow2(W) - 1, n, W)

sizeToMask(n) == Shl(Pow2(W) - 1, W - n, W)

NewRecordFromCIDR(ip, size, v) ==
  [prefix |-> BitAnd(ip, sizeToMask(size)), size |-> size, v |-> v]

\* every record NewRecordFromCIDR builds from an address and a mask size
Records ==
  {NewRecordFromCIDR(ip, size, v) : ip \in Addr, size \in 0 .. W, v \in Payloads}

(***************************************************************************)
(* Nodes.                                                                  *)
(***************************************************************************)
Nil == 0

Root == 1

node(p, l, r, v, leaf) == [p |-> p, l |-> l, r |-> r, v |-> v, leaf |-> leaf]

\* the address of the node allocated for branch bit of node n
NewAddr(n, bit) == 2 * n + bit

\* NewTable: the zero Tree, whose root is the zero node
NewTable == (Root :> node(Nil, Nil, Nil, NilPayload, FALSE))

\* the nodes reachable from the root; the others are garbage
RECURSIVE Reach(_, _)
Reach(m, n) ==
  IF n = Nil \/ n \notin DOMAIN m THEN {}
  ELSE {n} \cup Reach(m, m[n].l) \cup Reach(m, m[n].r)

Collect(m) == [n \in Reach(m, Root) |-> m[n]]

(***************************************************************************)
(* compress: walk upward from leaf n, merging equal sibling leaves.        *)
(* The result carries the memory, the delta and whether it panicked.       *)
(***************************************************************************)
\* canMerge that takes a missing right child for an equal one
canMergeLoose(m, p) ==
  /\ m[p].l # Nil
  /\ m[m[p].l].leaf
  /\ \/ m[p].r = Nil
     \/ m[m[p].r].leaf /\ vequal(m[m[p].l].v, m[m[p].r].v)

\* the parent p of the current node has two leaf children with equal payloads
canMerge(m, p) ==
  /\ m[p].l # Nil
  /\ m[p].r # Nil
  /\ m[m[p].l].leaf
  /\ m[m[p].r].leaf
  /\ vequal(m[m[p].l].v, m[m[p].r].v)

\* the four assignments that turn p into a leaf carrying its left child's payload
mergeInto(m, p) ==
  [m EXCEPT ![p] = node(m[p].p, Nil, Nil, m[m[p].l].v, TRUE)]

\* compressLoop that merges once and does not go on to the parent
compressLoopOnce(m, n, delta) ==
  LET p == m[n].p
  IN  IF p = Nil THEN [mem |-> m, delta |-> delta, panic |-> FALSE]
      ELSE IF canMerge(m, p)
      THEN [mem |-> mergeInto(m, p), delta |-> delta - 1, panic |-> FALSE]
      ELSE [mem |-> m, delta |-> delta, panic |-> FALSE]

RECURSIVE compressLoop(_, _, _)
compressLoop(m, n, delta) ==
  LET p == m[n].p
  IN  IF p = Nil THEN [mem |-> m, delta |-> delta, panic |-> FALSE]
      ELSE IF canMerge(m, p) THEN compressLoop(mergeInto(m, p), p, delta - 1)
      ELSE [mem |-> m, delta |-> delta, panic |-> FALSE]

\* compress that looks at the parent only when n is its left child
compressLeft(m, n) ==
  IF ~m[n].leaf THEN [mem |-> m, delta |-> 0, panic |-> TRUE]
  ELSE IF m[n].p # Nil /\ m[m[n].p].l # n
  THEN [mem |-> m, delta |-> 0, panic |-> FALSE]
  ELSE compressLoop(m, n, 0)

compress(m, n) ==
  IF ~m[n].leaf THEN [mem |-> m, delta |-> 0, panic |-> TRUE]
  ELSE compressLoop(m, n, 0)

(***************************************************************************)
(* fill: stamp payload v over the subtree of n.                            *)
(***************************************************************************)
\* a comparison that never finds a leaf's payload the same as v
fillSameNever(a, b) == FALSE

\* the comparison fill makes between a leaf's payload and v: Go's == on
\* interface values
fillSame(a, b) == a = b

\* f, the closure fill applies to each child.  (fill itself has no case for
\* a leaf n: both children are nil, both sides count as resolved, and n is
\* stamped with v.)
RECURSIVE fill(_, _, _)
fillChild(m, c, v) ==
  IF c = Nil THEN [mem |-> m, d |-> 0, c |-> TRUE]
  ELSE IF m[c].leaf
       THEN IF fillSame(m[c].v, v)
            THEN [mem |-> m, d |-> -1, c |-> TRUE]
            ELSE [mem |-> m, d |-> 0, c |-> FALSE]
  ELSE fill(m, c, v)

\* fill that creates no leaf for a missing right child
fillNoRight(m, n, v) ==
  LET a == fillChild(m, m[n].l, v)
      b == fillChild(a.mem, a.mem[n].r, v)
      m2 == b.mem
  IN  IF a.c /\ b.c
      THEN [mem |-> [m2 EXCEPT ![n] = node(m2[n].p, Nil, Nil, v, TRUE)],
            d |-> -1, c |-> TRUE]
      ELSE IF m2[n].l = Nil
      THEN [mem |-> (NewAddr(n, 0) :> node(n, Nil, Nil, v, TRUE))
                      @@ [m2 EXCEPT ![n].l = NewAddr(n, 0)],
            d |-> 1, c |-> FALSE]
      ELSE [mem |-> m2, d |-> a.d + b.d, c |-> FALSE]

\* fill that, when the left child is missing and the right one is an inner
\* node, creates the left leaf and returns before it descends into the right
fillEarly(m, n, v) ==
  IF m[n].l = Nil /\ m[n].r # Nil /\ ~m[m[n].r].leaf
  THEN [mem |-> (NewAddr(n, 0) :> node(n, Nil, Nil, v, TRUE))
                  @@ [m EXCEPT ![n].l = NewAddr(n, 0)],
        d |-> 1, c |-> FALSE]
  ELSE
  LET L == fillChild(m, m[n].l, v)
      R == fillChild(L.mem, L.mem[n].r, v)
      m2 == R.mem
  IN  IF L.c /\ R.c
      THEN [mem |-> [m2 EXCEPT ![n] = node(m2[n].p, Nil, Nil, v, TRUE)],
            d |-> L.d + R.d, c |-> TRUE]
      ELSE IF m2[n].l = Nil
      THEN [mem |-> (NewAddr(n, 0) :> node(n, Nil, Nil, v, TRUE))
                      @@ [m2 EXCEPT ![n].l = NewAddr(n, 0)],
            d |-> 1, c |-> FALSE]
      ELSE IF m2[n].r = Nil
      THEN [mem |-> (NewAddr(n, 1) :> node(n, Nil, Nil, v, TRUE))
                      @@ [m2 EXCEPT ![n].r = NewAddr(n, 1)],
            d |-> 1, c |-> FALSE]
      ELSE [mem |-> m2, d |-> L.d + R.d, c |-> FALSE]

fill(m, n, v) ==
  LET L == fillChild(m, m[n].l, v)
      R == fillChild(L.mem, L.mem[n].r, v)
      m2 == R.mem
  IN  IF L.c /\ R.c
      THEN [mem |-> [m2 EXCEPT ![n] = node(m2[n].p, Nil, Nil, v, TRUE)],
            d |-> L.d + R.d, c |-> TRUE]
      ELSE IF m2[n].l = Nil
      THEN [mem |-> (NewAddr(n, 0) :> node(n, Nil, Nil, v, TRUE))
                      @@ [m2 EXCEPT ![n].l = NewAddr(n, 0)],
            d |-> 1, c |-> FALSE]
      ELSE IF m2[n].r = Nil
      THEN [mem |-> (NewAddr(n, 1) :> node(n, Nil, Nil, v, TRUE))
                      @@ [m2 EXCEPT ![n].r = NewAddr(n, 1)],
            d |-> 1, c |-> FALSE]
      ELSE [mem |-> m2, d |-> L.d + R.d, c |-> FALSE]

(***************************************************************************)
(* Tree.Add.                                                               *)
(***************************************************************************)
\* the field of n that *tbranch (b = msb) or *obranch (b = 1 - msb) names
branch(m, n, b) == IF b = 0 THEN m[n].l ELSE m[n].r

\* *branch = &node{...}: allocate nd and store its address in the field
setBranch(m, n, b, nd) ==
  (NewAddr(n, b) :> nd)
    @@ (IF b = 0 THEN [m EXCEPT ![n].l = NewAddr(n, 0)]
                 ELSE [m EXCEPT ![n].r = NewAddr(n, 1)])

\* splitLeaf whose target child carries the new payload at every step
splitLeafNew(m, n, msb, last_step, v) ==
  LET old == m[n].v
      m1 == [m EXCEPT ![n].leaf = FALSE]
      m2 == setBranch(m1, n, msb, node(n, Nil, Nil, v, TRUE))
      m3 == setBranch(m2, n, 1 - msb, node(n, Nil, Nil, old, TRUE))
  IN  [m3 EXCEPT ![n].v = NilPayload]

\* splitLeaf that leaves the old payload in the node it turns into an inner
\* node
splitLeafKeepV(m, n, msb, last_step, v) ==
  LET old == m[n].v
      m1 == [m EXCEPT ![n].leaf = FALSE]
      m2 == setBranch(m1, n, msb,
                      node(n, Nil, Nil, IF last_step THEN v ELSE old, TRUE))
  IN  setBranch(m2, n, 1 - msb, node(n, Nil, Nil, old, TRUE))

\* splitLeaf whose other child has no parent reference
splitLeafNoParent(m, n, msb, last_step, v) ==
  LET old == m[n].v
      m1 == [m EXCEPT ![n].leaf = FALSE]
      m2 == setBranch(m1, n, msb,
                      node(n, Nil, Nil, IF last_step THEN v ELSE old, TRUE))
      m3 == setBranch(m2, n, 1 - msb, node(Nil, Nil, Nil, old, TRUE))
  IN  [m3 EXCEPT ![n].v = NilPayload]

\* splitLeaf whose other child carries the new payload
splitLeafOther(m, n, msb, last_step, v) ==
  LET old == m[n].v
      m1 == [m EXCEPT ![n].leaf = FALSE]
      m2 == setBranch(m1, n, msb,
                      node(n, Nil, Nil, IF last_step THEN v ELSE old, TRUE))
      m3 == setBranch(m2, n, 1 - msb, node(n, Nil, Nil, v, TRUE))
  IN  [m3 EXCEPT ![n].v = NilPayload]

\* n is a leaf and the new block is narrower: n stops being a leaf, the
\* target child carries the new payload at the last step and the old one
\* before it, the other child carries the old payload
splitLeaf(m, n, msb, last_step, v) ==
  LET old == m[n].v
      m1 == [m EXCEPT ![n].leaf = FALSE]
      m2 == setBranch(m1, n, msb,
                      node(n, Nil, Nil, IF last_step THEN v ELSE old, TRUE))
      m3 == setBranch(m2, n, 1 - msb, node(n, Nil, Nil, old, TRUE))
  IN  [m3 EXCEPT ![n].v = NilPayload]

\* addFinal that leaves mod set after fill, so that compress runs on the
\* target child
addFinalMod(m, n, msb, v, overwrite) ==
  IF overwrite \/ branch(m, n, msb) = Nil
  THEN [mem |-> setBranch(m, n, msb, node(n, Nil, Nil, v, TRUE)), mod |-> TRUE]
  ELSE [mem |-> fill(m, branch(m, n, msb), v).mem, mod |-> TRUE]

\* addFinal that runs fill on a present target child also when overwriting
addFinalFill(m, n, msb, v, overwrite) ==
  IF branch(m, n, msb) = Nil
  THEN [mem |-> setBranch(m, n, msb, node(n, Nil, Nil, v, TRUE)), mod |-> TRUE]
  ELSE [mem |-> fill(m, branch(m, n, msb), v).mem, mod |-> FALSE]

\* addFinal that attaches a node without setting its leaf flag
addFinalNoLeaf(m, n, msb, v, overwrite) ==
  IF overwrite \/ branch(m, n, msb) = Nil
  THEN [mem |-> setBranch(m, n, msb, node(n, Nil, Nil, NilPayload, FALSE)), mod |-> FALSE]
  ELSE [mem |-> fill(m, branch(m, n, msb), v).mem, mod |-> FALSE]

\* n is not a leaf and this is the last step
addFinal(m, n, msb, v, overwrite) ==
  IF overwrite \/ branch(m, n, msb) = Nil
  THEN [mem |-> setBranch(m, n, msb, node(n, Nil, Nil, v, TRUE)), mod |-> TRUE]
  ELSE [mem |-> fill(m, branch(m, n, msb), v).mem, mod |-> FALSE]

\* n is not a leaf and this is not the last step
addInner(m, n, msb, mod) ==
  IF branch(m, n, msb) = Nil
  THEN [mem |-> setBranch(m, n, msb, node(n, Nil, Nil, NilPayload, FALSE)),
        mod |-> TRUE]
  ELSE [mem |-> m, mod |-> mod]

\* the leaf test that ends the descent early
stopAtLeafEqual(overwrite, old, v) == vequal(old, v)

stopAtLeaf(overwrite, old, v) == ~overwrite \/ vequal(old, v)

\* The descent loop.  n is nil when the target branch followed last was
\* absent; the next iteration would then dereference nil (fault).
RECURSIVE addLoop(_, _, _, _, _, _, _)
addLoop(m, n, depth, prefix, mod, r, overwrite) ==
  IF n = Nil THEN [mem |-> m, n |-> n, mod |-> mod, fault |-> depth <= r.size]
  ELSE IF depth > r.size THEN [mem |-> m, n |-> n, mod |-> mod, fault |-> FALSE]
  ELSE
    LET msb == prefix \div Pow2(W - 1)
        prefix2 == Shl(prefix, 1, W)
    IN  IF m[n].leaf
        THEN IF stopAtLeaf(overwrite, m[n].v, r.v)
             THEN [mem |-> m, n |-> n, mod |-> mod, fault |-> FALSE]
             ELSE LET m2 == splitLeaf(m, n, msb, depth = r.size, r.v)
                  IN  addLoop(m2, branch(m2, n, msb), depth + 1, prefix2,
                              TRUE, r, overwrite)
        ELSE LET s == IF depth = r.size
                      THEN addFinal(m, n, msb, r.v, overwrite)
                      ELSE addInner(m, n, msb, mod)
             IN  addLoop(s.mem, branch(s.mem, n, msb), depth + 1, prefix2,
                         s.mod, r, overwrite)

\* Tree.Add on memory m: the memory afterwards, whether the call panicked
\* (a nil dereference, or compress's "must be a leaf"), and whether the node
\* taken from the target branch was absent
TreeAdd(m, r, overwrite) ==
  LET d == addLoop(m, Root, 1, r.prefix, FALSE, r, overwrite)
  IN  IF d.fault \/ (d.mod /\ d.n = Nil)
      THEN [mem |-> Collect(d.mem), panic |-> TRUE, absent |-> TRUE]
      ELSE IF d.mod
      THEN LET c == compress(d.mem, d.n)
           IN  [mem |-> Collect(c.mem), panic |-> c.panic, absent |-> FALSE]
      ELSE [mem |-> Collect(d.mem), panic |-> FALSE, absent |-> d.n = Nil]

(***************************************************************************)
(* Tree.Lookup: <<payload, found>>, or Panic.                              *)
(***************************************************************************)
Panic == <<"panic", FALSE>>

\* the descent of Lookup with one step less than the width of an address
RECURSIVE lookupLoopShort(_, _, _, _)
lookupLoopShort(m, n, depth, prefix) ==
  IF depth > W - 1 THEN Panic
  ELSE
    LET msb == prefix \div Pow2(W - 1)
        c == branch(m, n, msb)
    IN  IF c = Nil THEN <<NilPayload, FALSE>>
        ELSE IF m[c].leaf THEN <<m[c].v, TRUE>>
        ELSE lookupLoopShort(m, c, depth + 1, Shl(prefix, 1, W))

RECURSIVE lookupLoop(_, _, _, _)
lookupLoop(m, n, depth, prefix) ==
  IF depth > W THEN Panic
  ELSE
    LET msb == prefix \div Pow2(W - 1)
        c == branch(m, n, msb)
    IN  IF c = Nil THEN <<NilPayload, FALSE>>
        ELSE IF m[c].leaf THEN <<m[c].v, TRUE>>
        ELSE lookupLoop(m, c, depth + 1, Shl(prefix, 1, W))

Lookup(m, ip) == lookupLoop(m, Root, 1, ip)

(***************************************************************************)
(* Tree.walk and Tree.Dump.                                                *)
(***************************************************************************)
\* f visiting the right child before the left one
RECURSIVE walkFRight(_, _, _, _)
walkFRight(m, n, prefix, depth) ==
  IF m[n].leaf
  THEN << [prefix |-> Shl(prefix, W - depth, W), size |-> depth, v |-> m[n].v] >>
  ELSE LET p0 == Shl(prefix, 1, W)
           p1 == BitOr(p0, 1)
       IN  (IF m[n].r # Nil THEN walkFRight(m, m[n].r, p1, depth + 1) ELSE << >>)
           \o (IF m[n].l # Nil THEN walkFRight(m, m[n].l, p0, depth + 1) ELSE << >>)

RECURSIVE walkF(_, _, _, _)
walkF(m, n, prefix, depth) ==
  IF m[n].leaf
  THEN << [prefix |-> Shl(prefix, W - depth, W), size |-> depth, v |-> m[n].v] >>
  ELSE LET p0 == Shl(prefix, 1, W)
           p1 == BitOr(p0, 1)
       IN  (IF m[n].l # Nil THEN walkF(m, m[n].l, p0, depth + 1) ELSE << >>)
           \o (IF m[n].r # Nil THEN walkF(m, m[n].r, p1, depth + 1) ELSE << >>)

\* the records walk hands to its callback, in order
walk(m) == walkF(m, Root, 0, 0)

\* Record.String: the block and the payload's rendering
RecordString(r) == <<r.prefix, r.size, PayloadString(r.v)>>

\* Tree.Dump: the rendered records, one per line
Dump(m) == [i \in 1 .. Len(walk(m)) |-> RecordString(walk(m)[i])]

(***************************************************************************)
(* rangeToSubnet and NewRecordFromRange, on RW-bit addresses.              *)
(***************************************************************************)
RAddr == 0 .. (Pow2(RW) - 1)

\* the loop "find the LSB that equal": the number of trailing one bits of x
RECURSIVE trailingOnes(_)
trailingOnes(x) == IF x % 2 = 0 THEN 0 ELSE 1 + trailingOnes(x \div 2)

\* the loop "find the MSB that differ": the position of the highest set bit
RECURSIVE highBit(_)
highBit(x) == IF x \div 2 = 0 THEN 0 ELSE 1 + highBit(x \div 2)

\* inSubnet without the alignment test (low | lxh) == high
inSubnetNoAlign(lo, hi, lxh, i) == i = 0

\* inSubnet that accepts single addresses only
inSubnetSingle(lo, hi, lxh, i) == lxh = 0

\* the test "already in a subnet": i is lxh shifted right past its trailing ones
inSubnet(lo, hi, lxh, i) == i = 0 /\ BitOr(lo, lxh) = hi

\* the single block appended in that case
oneSubnet(lo, j) == << [prefix |-> lo, size |-> j] >>

\* a split point computed without the decrement: i = ^i & high
splitPointNoDec(hi, j) ==
  BitAnd(BitNot(Shl(1, j, RW), RW), hi)

\* the split point: i = 1 << j; i = ^(i - 1) & high
splitPoint(hi, j) ==
  BitAnd(BitNot(Dec(Shl(1, j, RW), RW), RW), hi)

RECURSIVE rangeToSubnet(_, _)
rangeToSubnet(a, b) ==
  LET lo == IF a > b THEN b ELSE a
      hi == IF a > b THEN a ELSE b
      lxh == BitXor(lo, hi)
      t == trailingOnes(lxh)
      i == lxh \div Pow2(t)
      j == RW - t
  IN  IF inSubnet(lo, hi, lxh, i)
      THEN oneSubnet(lo, j)
      ELSE LET mid == splitPoint(hi, highBit(lxh))
           IN  rangeToSubnet(lo, Dec(mid, RW)) \o rangeToSubnet(mid, hi)

NewRecordFromRange(a, b, v) ==
  LET cs == rangeToSubnet(a, b)
  IN  [k \in 1 .. Len(cs) |-> [i |-> cs[k], v |-> v]]

(***************************************************************************)
(* The tree as a state machine: a run is a sequence of Add calls.          *)
(***************************************************************************)
\* History kept beside the tree: prev is the tree before the last Add, last
\* its arguments, nadds the number of calls made, and flat the address map
\* the calls describe (an overwriting Add sets every address of its block,
\* a non-overwriting one only those not yet set).
Unset == "unset"

Block(c) == {a \in Addr : a \div Pow2(W - c.size) = c.prefix \div Pow2(W - c.size)}

flatAdd(f, r, overwrite) ==
  [a \in Addr |->
     IF a \in Block(r) /\ (overwrite \/ f[a] = Unset) THEN r.v ELSE f[a]]

NoCall == [r |-> [prefix |-> 0, size |-> 0, v |-> NilPayload], overwrite |-> FALSE]

InitTree ==
  /\ mem = NewTable
  /\ prev = NewTable
  /\ last = NoCall
  /\ nadds = 0
  /\ panicked = FALSE
  /\ flat = [a \in Addr |-> Unset]

InitRangeIdle ==
  /\ low = 0
  /\ high = 0
  /\ ns = << >>
  /\ called = FALSE

\* no set of blocks is being inserted
InitOrderIdle ==
  /\ chosen = {}
  /\ pending = {}

NoSplit == [lo |-> 0, mid |-> 0, hi |-> 0, made |-> FALSE]

\* no call of rangeToSubnet is being stepped through
InitStepIdle ==
  /\ stack = << >>
  /\ cidrs = << >>
  /\ split = NoSplit

NoRec == [prefix |-> 0, size |-> 0, v |-> NilPayload, made |-> FALSE]

\* NewRecordFromCIDR is not being called
InitCIDRIdle ==
  /\ ipnet = [ip |-> 0, size |-> 0]
  /\ rec = NoRec

NoRead == [n |-> Nil, w |-> 0]

NoReader == [ip |-> 0, n |-> Nil, depth |-> 0, prefix |-> 0, pc |-> "idle",
             res |-> <<NilPayload, FALSE>>,
             flag |-> NoRead, next |-> NoRead, before |-> TRUE, after |-> TRUE]

\* no Add is running write by write and no Lookup beside it
InitRaceIdle ==
  /\ wpc = 0
  /\ rd = NoReader

Init ==
  /\ InitTree
  /\ InitRangeIdle
  /\ InitOrderIdle
  /\ InitStepIdle
  /\ InitCIDRIdle
  /\ InitRaceIdle

Add ==
  /\ nadds < MaxAdds
  /\ ~panicked
  /\ \E r \in Records, overwrite \in BOOLEAN :
       LET res == TreeAdd(mem, r, overwrite)
       IN  /\ mem' = res.mem
           /\ panicked' = res.panic
           /\ prev' = mem
           /\ last' = [r |-> r, overwrite |-> overwrite]
           /\ nadds' = nadds + 1
           /\ flat' = flatAdd(flat, r, overwrite)
  /\ UNCHANGED <<rangeVars, orderVars, stepVars, cidrVars, raceVars>>

Next == Add

Spec == Init /\ [][Next]_vars

(***************************************************************************)
(* The range decomposition as a state machine: one call on any two         *)
(* addresses.                                                              *)
(***************************************************************************)
InitRange ==
  /\ InitTree
  /\ low \in RAddr
  /\ high \in RAddr
  /\ ns = << >>
  /\ called = FALSE
  /\ InitOrderIdle
  /\ InitStepIdle
  /\ InitCIDRIdle
  /\ InitRaceIdle

RangeCall ==
  /\ ~called
  /\ ns' = NewRecordFromRange(low, high, NilPayload)
  /\ called' = TRUE
  /\ UNCHANGED <<low, high>>
  /\ UNCHANGED <<treeVars, orderVars, stepVars, cidrVars, raceVars>>

NextRange == RangeCall

SpecRange == InitRange /\ [][NextRange]_vars

(***************************************************************************)
(* The tree under Add calls whose payloads are of the pointer type.         *)
(***************************************************************************)
RecordsEq ==
  {NewRecordFromCIDR(ip, size, v) : ip \in Addr, size \in 0 .. W, v \in PtrPayloads}

AddEq ==
  /\ nadds < MaxAdds
  /\ ~panicked
  /\ \E r \in RecordsEq, overwrite \in BOOLEAN :
       LET t == TreeAdd(mem, r, overwrite)
       IN  /\ mem' = t.mem
           /\ panicked' = t.panic
           /\ prev' = mem
           /\ last' = [r |-> r, overwrite |-> overwrite]
           /\ nadds' = nadds + 1
           /\ flat' = flatAdd(flat, r, overwrite)
  /\ UNCHANGED <<rangeVars, orderVars, stepVars, cidrVars, raceVars>>

NextEq == AddEq

SpecEq == Init /\ [][NextEq]_vars

(***************************************************************************)
(* An overwriting Add that splits a leaf, one field write at a time, with a *)
(* Lookup running beside it one field read at a time.  Add and Lookup take  *)
(* no lock: the interleavings of the writes and the reads are among the     *)
(* outcomes of the data race.  mem is the memory both work on, prev the     *)
(* tree before the Add, last the arguments of the Add, wpc the number of    *)
(* writes done, rd the locals of Lookup and a record of its reads: flag is  *)
(* the last read of a leaf flag that found it clear (the node and the       *)
(* number of writes made before it), next the read that followed it, before *)
(* and after whether all reads came before the first or after the last      *)
(* write.                                                                   *)
(***************************************************************************)
\* the split with both children attached before the leaf flag is cleared
splitWritesSafe(m, n, msb, last_step, v) ==
  LET old == m[n].v
      s1 == setBranch(m, n, msb,
                      node(n, Nil, Nil, IF last_step THEN v ELSE old, TRUE))
      s2 == setBranch(s1, n, 1 - msb, node(n, Nil, Nil, old, TRUE))
      s3 == [s2 EXCEPT ![n].leaf = FALSE]
      s4 == [s3 EXCEPT ![n].v = NilPayload]
  IN  << s1, s2, s3, s4 >>

\* the memory after each of the six writes of the split of leaf n
splitWrites(m, n, msb, last_step, v) ==
  LET old == m[n].v
      t == NewAddr(n, msb)
      s1 == [m EXCEPT ![n].leaf = FALSE]
      s2 == setBranch(s1, n, msb, node(n, Nil, Nil, NilPayload, FALSE))
      s3 == [s2 EXCEPT ![t].leaf = TRUE]
      s4 == [s3 EXCEPT ![t].v = IF last_step THEN v ELSE old]
      s5 == setBranch(s4, n, 1 - msb, node(n, Nil, Nil, old, TRUE))
      s6 == [s5 EXCEPT ![n].v = NilPayload]
  IN  << s1, s2, s3, s4, s5, s6 >>

\* the memory after each write of Add(r, overwrite = true) from node n on,
\* for a block r inside a leaf with a different payload: the descent reads
\* its way down to the leaf, splits it, and splits the target child again
\* until the size of r is reached; compress then finds the new leaf beside
\* a leaf with the old payload and writes nothing
RECURSIVE addWrites(_, _, _, _, _)
addWrites(m, n, depth, prefix, r) ==
  IF depth > r.size THEN << >>
  ELSE LET msb == prefix \div Pow2(W - 1)
           prefix2 == Shl(prefix, 1, W)
       IN  IF m[n].leaf
           THEN IF stopAtLeaf(TRUE, m[n].v, r.v) THEN << >>
                ELSE LET ws == splitWrites(m, n, msb, depth = r.size, r.v)
                         m2 == ws[Len(ws)]
                     IN  ws \o addWrites(m2, branch(m2, n, msb), depth + 1, prefix2, r)
           ELSE addWrites(m, branch(m, n, msb), depth + 1, prefix2, r)

\* the writes of the running Add
Writes == addWrites(prev, Root, 1, last.r.prefix, last.r)

InitRace ==
  /\ InitRangeIdle
  /\ InitOrderIdle
  /\ InitStepIdle
  /\ InitCIDRIdle
  /\ \E r0 \in Records :
       /\ r0.size >= 1
       /\ prev = TreeAdd(NewTable, r0, FALSE).mem
       /\ flat = flatAdd([a \in Addr |-> Unset], r0, FALSE)
       /\ \E r1 \in Records :
            /\ r1.size > r0.size
            /\ Block(r1) \subseteq Block(r0)
            /\ ~vequal(r0.v, r1.v)
            /\ last = [r |-> r1, overwrite |-> TRUE]
       /\ \E ip \in Block(r0) :
            rd = [NoReader EXCEPT !.ip = ip, !.n = Root, !.depth = 1,
                                  !.prefix = ip, !.pc = "child"]
  /\ mem = prev
  /\ nadds = 1
  /\ panicked = FALSE
  /\ wpc = 0

\* Add makes its next field write
Write ==
  /\ wpc < Len(Writes)
  /\ mem' = Writes[wpc + 1]
  /\ wpc' = wpc + 1
  /\ UNCHANGED <<prev, last, nadds, panicked, flat, rd>>
  /\ UNCHANGED <<rangeVars, orderVars, stepVars, cidrVars>>

\* the record of the reads, after a read of node n
Noted(n, isflag) ==
  [rd EXCEPT !.flag = IF isflag THEN [n |-> n, w |-> wpc] ELSE rd.flag,
             !.next = IF isflag THEN NoRead
                      ELSE IF rd.flag.n # Nil /\ rd.next.n = Nil
                      THEN [n |-> n, w |-> wpc] ELSE rd.next,
             !.before = rd.before /\ wpc = 0,
             !.after = rd.after /\ wpc = Len(Writes)]

\* Lookup reads the child pointer of its node: n = n.l or n = n.r
RdChild ==
  /\ rd.pc = "child"
  /\ LET c == branch(mem, rd.n, rd.prefix \div Pow2(W - 1))
         nt == Noted(rd.n, FALSE)
     IN  rd' = IF c = Nil
               THEN [nt EXCEPT !.pc = "done", !.res = <<NilPayload, FALSE>>]
               ELSE [nt EXCEPT !.pc = "leaf", !.n = c,
                               !.prefix = Shl(rd.prefix, 1, W)]
  /\ UNCHANGED <<treeVars, wpc, rangeVars, orderVars, stepVars, cidrVars>>

\* Lookup reads the leaf flag of its node; when the flag is clear the loop
\* goes on, and past the last depth it ends in the panic
RdLeaf ==
  /\ rd.pc = "leaf"
  /\ rd' = IF mem[rd.n].leaf
           THEN [Noted(rd.n, FALSE) EXCEPT !.pc = "value"]
           ELSE IF rd.depth + 1 > W
           THEN [Noted(rd.n, TRUE) EXCEPT !.pc = "done", !.res = Panic]
           ELSE [Noted(rd.n, TRUE) EXCEPT !.pc = "child", !.depth = rd.depth + 1]
  /\ UNCHANGED <<treeVars, wpc, rangeVars, orderVars, stepVars, cidrVars>>

\* Lookup reads the payload of the leaf and returns it
RdValue ==
  /\ rd.pc = "value"
  /\ rd' = [Noted(rd.n, FALSE) EXCEPT !.pc = "done", !.res = <<mem[rd.n].v, TRUE>>]
  /\ UNCHANGED <<treeVars, wpc, rangeVars, orderVars, stepVars, cidrVars>>

NextRace == Write \/ RdChild \/ RdLeaf \/ RdValue

SpecRace == InitRace /\ [][NextRace]_vars

(***************************************************************************)
(* NewRecordFromCIDR as a state machine: one call on any address and size.  *)
(***************************************************************************)
InitCIDR ==
  /\ InitTree
  /\ InitRangeIdle
  /\ InitOrderIdle
  /\ InitStepIdle
  /\ InitRaceIdle
  /\ ipnet \in [ip : Addr, size : 0 .. W]
  /\ rec = NoRec

FromCIDR ==
  /\ ~rec.made
  /\ \E v \in Payloads :
       LET r == NewRecordFromCIDR(ipnet.ip, ipnet.size, v)
       IN  rec' = [prefix |-> r.prefix, size |-> r.size, v |-> r.v, made |-> TRUE]
  /\ UNCHANGED <<ipnet, treeVars, rangeVars, orderVars, stepVars, raceVars>>

NextCIDR == FromCIDR

SpecCIDR == InitCIDR /\ [][NextCIDR]_vars

(***************************************************************************)
(* Disjoint blocks inserted into an empty tree in any order, without        *)
(* overwrite.                                                               *)
(***************************************************************************)
Disjoint(S) == \A x, y \in S : x # y => Block(x) \cap Block(y) = {}

\* the sets of at most k records with pairwise disjoint blocks
RECURSIVE DisjointSets(_)
DisjointSets(k) ==
  IF k = 0 THEN {{}}
  ELSE LET P == DisjointSets(k - 1)
       IN  P \cup {T \in {S \cup {r} : S \in P, r \in Records} : Disjoint(T)}

InitOrder ==
  /\ InitTree
  /\ InitRangeIdle
  /\ InitStepIdle
  /\ InitCIDRIdle
  /\ InitRaceIdle
  /\ chosen \in DisjointSets(MaxSet)
  /\ pending = chosen

\* one Add of a block not yet inserted, overwrite = false
AddPending ==
  /\ ~panicked
  /\ \E r \in pending :
       LET res == TreeAdd(mem, r, FALSE)
       IN  /\ mem' = res.mem
           /\ panicked' = res.panic
           /\ prev' = mem
           /\ last' = [r |-> r, overwrite |-> FALSE]
           /\ nadds' = nadds + 1
           /\ flat' = flatAdd(flat, r, FALSE)
           /\ pending' = pending \ {r}
  /\ UNCHANGED <<chosen, rangeVars, stepVars, cidrVars, raceVars>>

NextOrder == AddPending

\* the sets of at most k records that carry payload v, overlapping or not
RECURSIVE SameSets(_, _)
SameSets(k, v) ==
  IF k = 0 THEN {{}}
  ELSE LET P == SameSets(k - 1, v)
       IN  P \cup {S \cup {r} : S \in P, r \in {x \in Records : x.v = v}}

InitSame ==
  /\ InitTree
  /\ InitRangeIdle
  /\ InitStepIdle
  /\ InitCIDRIdle
  /\ InitRaceIdle
  /\ \E v \in TestPayloads : chosen \in SameSets(MaxSet, v)
  /\ pending = chosen

SpecSame == InitSame /\ [][NextOrder]_vars

SpecOrder == InitOrder /\ [][NextOrder]_vars

(***************************************************************************)
(* One call of rangeToSubnet, a step at a time: stack holds the calls not   *)
(* yet made, the innermost first; cidrs is the result built so far; split is*)
(* the last split made.                                                     *)
(***************************************************************************)
InitSteps ==
  /\ InitTree
  /\ InitOrderIdle
  /\ InitCIDRIdle
  /\ InitRaceIdle
  /\ low \in RAddr
  /\ high \in RAddr
  /\ ns = << >>
  /\ called = FALSE
  /\ stack = << [a |-> low, b |-> high] >>
  /\ cidrs = << >>
  /\ split = NoSplit

\* the arguments of the call on top of the stack, after the swap
TopLo == IF Head(stack).a > Head(stack).b THEN Head(stack).b ELSE Head(stack).a

TopHi == IF Head(stack).a > Head(stack).b THEN Head(stack).a ELSE Head(stack).b

TopLxh == BitXor(TopLo, TopHi)

TopInSubnet == inSubnet(TopLo, TopHi, TopLxh, TopLxh \div Pow2(trailingOnes(TopLxh)))

\* the call on top of the stack finds its range to be one subnet and returns it
StepSubnet ==
  /\ stack # << >>
  /\ TopInSubnet
  /\ cidrs' = cidrs \o oneSubnet(TopLo, RW - trailingOnes(TopLxh))
  /\ stack' = Tail(stack)
  /\ UNCHANGED <<split, rangeVars, treeVars, orderVars, cidrVars, raceVars>>

\* the call on top of the stack splits its range and calls itself on the
\* lower part, then on the upper part
StepSplit ==
  /\ stack # << >>
  /\ ~TopInSubnet
  /\ LET mid == splitPoint(TopHi, highBit(TopLxh))
     IN  /\ split' = [lo |-> TopLo, mid |-> mid, hi |-> TopHi, made |-> TRUE]
         /\ stack' = << [a |-> TopLo, b |-> Dec(mid, RW)], [a |-> mid, b |-> TopHi] >>
                        \o Tail(stack)
  /\ UNCHANGED <<cidrs, rangeVars, treeVars, orderVars, cidrVars, raceVars>>

NextSteps == StepSubnet \/ StepSplit

\* a call that has a step to take takes it
SpecSteps == InitSteps /\ [][NextSteps]_vars /\ WF_vars(NextSteps)

(***************************************************************************)
(* Properties of the range decomposition.                                  *)
(***************************************************************************)
\* the addresses of the RW-bit block c
RBlock(c) ==
  {a \in RAddr : a \div Pow2(RW - c.size) = c.prefix \div Pow2(RW - c.size)}

RCanonical(c) ==
  /\ c.size \in 0 .. RW
  /\ c.prefix \in RAddr
  /\ c.prefix % Pow2(RW - c.size) = 0

RLo == IF low > high THEN high ELSE low

RHi == IF low > high THEN low ELSE high

\* all canonical RW-bit blocks
RBlocks == {c \in [prefix : RAddr, size : 0 .. RW] : RCanonical(c)}

\* the aligned block one bit wider than c
RParent(c) ==
  [prefix |-> c.prefix - (c.prefix % Pow2(RW - c.size + 1)), size |-> c.size - 1]

\* the blocks inside [lo, hi] that no wider block inside [lo, hi] contains.
\* Every block inside the range lies in exactly one of them, so an exact
\* cover of the range has at least one block per maximal block.
MaximalBlocks(lo, hi) ==
  {c \in RBlocks :
     /\ RBlock(c) \subseteq lo .. hi
     /\ (c.size = 0 \/ ~(RBlock(RParent(c)) \subseteq lo .. hi))}

\* C7: for all low and high, in either order, the records NewRecordFromRange
\* returns are canonical blocks, pairwise disjoint, in strictly ascending
\* address order, and their union is exactly [min(low,high), max(low,high)];
\* [2, 10] yields 2/(RW-1), 4/(RW-2), 8/(RW-1), 10/RW in that order.
C7_RangeDecomposition ==
  called =>
    /\ \A k \in 1 .. Len(ns) : RCanonical(ns[k].i)
    /\ UNION {RBlock(ns[k].i) : k \in 1 .. Len(ns)} = RLo .. RHi
    /\ \A k1, k2 \in 1 .. Len(ns) :
         k1 # k2 => RBlock(ns[k1].i) \cap RBlock(ns[k2].i) = {}
    /\ \A k \in 1 .. Len(ns) - 1 : ns[k].i.prefix < ns[k + 1].i.prefix
    /\ (RLo = 2 /\ RHi = 10) =>
         [k \in 1 .. Len(ns) |-> ns[k].i]
           = << [prefix |-> 2, size |-> RW - 1], [prefix |-> 4, size |-> RW - 2],
                [prefix |-> 8, size |-> RW - 1], [prefix |-> 10, size |-> RW] >>

\* the call was made on [10, 2], given high first, and returned four blocks
C7_Witness == called /\ low = 10 /\ high = 2 /\ Len(ns) = 4

\* C8: for all low <= high the number of blocks returned is the smallest
\* number of blocks whose union is exactly [low, high], and no two returned
\* blocks are the two halves of one aligned block.
C8_RangeMinimal ==
  (called /\ low <= high) =>
    /\ Len(ns) = Cardinality(MaximalBlocks(low, high))
    /\ \A k1, k2 \in 1 .. Len(ns) :
         (k1 # k2 /\ ns[k1].i.size = ns[k2].i.size /\ ns[k1].i.size > 0)
           => RParent(ns[k1].i) # RParent(ns[k2].i)

\* the call was made on [1, 14], whose smallest cover has six blocks
C8_Witness == called /\ low = 1 /\ high = 14 /\ Len(ns) = 6

(***************************************************************************)
(* Properties of the tree.                                                 *)
(***************************************************************************)
\* what the blocks walk emits say about address a: <<covered, payload>>
DumpAt(m, a) ==
  LET w == walk(m)
      hits == {k \in 1 .. Len(w) : a \in Block(w[k])}
  IN  IF hits = {} THEN <<FALSE, NilPayload>>
      ELSE <<TRUE, w[CHOOSE k \in hits : TRUE].v>>

\* the last call, once one has been made
Called == nadds > 0

\* C1: after every Add the tree contains no node whose two children are both
\* leaves with equal payloads.
C1_CompressionSound ==
  \A n \in DOMAIN mem :
    ~(/\ mem[n].l # Nil
      /\ mem[n].r # Nil
      /\ mem[mem[n].l].leaf
      /\ mem[mem[n].r].leaf
      /\ vequal(mem[mem[n].l].v, mem[mem[n].r].v))

\* C2: after Add(block, payload, overwrite=false) every address that was
\* mapped to a payload before the call is mapped to the same payload.
C2_NonOverwritePreserves ==
  (Called /\ ~last.overwrite) =>
    \A a \in Addr : DumpAt(prev, a)[1] => DumpAt(mem, a) = DumpAt(prev, a)

\* C3: for every record Dump emits and every address inside its block,
\* Lookup returns found=true with that record's payload.
C3_LookupDumpConsistent ==
  LET w == walk(mem)
  IN  \A k \in 1 .. Len(w) : \A a \in Block(w[k]) :
        Lookup(mem, a) = <<w[k].v, TRUE>>

\* the node that stands for block c
NodeAt(c) == Pow2(c.size) + (c.prefix \div Pow2(W - c.size))

\* the last Add met an inner node at its target and ran fill on it
FillRan ==
  /\ Called
  /\ ~last.overwrite
  /\ last.r.size >= 1
  /\ NodeAt(last.r) \in DOMAIN prev
  /\ ~prev[NodeAt(last.r)].leaf
  /\ \A d \in 0 .. last.r.size - 1 :
       ~prev[NodeAt([prefix |-> last.r.prefix, size |-> d])].leaf

\* C4: Lookup of an address that lies in none of the blocks passed to Add
\* returns found=false, and no block of Dump covers it.
C4_NoPhantomCoverage ==
  \A a \in Addr :
    flat[a] = Unset =>
      /\ Lookup(mem, a) = <<NilPayload, FALSE>>
      /\ ~DumpAt(mem, a)[1]

\* fill ran in the last Add, the tree changed, and some address is in no
\* inserted block while another is found
C4_Witness ==
  /\ FillRan
  /\ mem # prev
  /\ \E a \in Addr : flat[a] = Unset
  /\ \E a \in Addr : Lookup(mem, a)[2]

\* C5: after Add(block, payload, overwrite=true) with block size in [0,W]
\* every address inside the block is mapped, by Dump's blocks and by Lookup,
\* to a payload equal to the new payload.
C5_OverwriteWins ==
  (Called /\ last.overwrite) =>
    \A a \in Block(last.r) :
      /\ DumpAt(mem, a)[1]
      /\ vequal(DumpAt(mem, a)[2], last.r.v)
      /\ Lookup(mem, a)[2]
      /\ vequal(Lookup(mem, a)[1], last.r.v)

\* C6: calling Add(block, payload, overwrite) a second time with the same
\* arguments leaves the Dump output as the first call left it.
C6_Idempotent ==
  Called =>
    LET again == TreeAdd(mem, last.r, last.overwrite)
    IN  /\ ~again.panic
        /\ Dump(again.mem) = Dump(mem)

\* the last Add ran fill and changed the Dump output
C6_Witness == FillRan /\ Dump(mem) # Dump(prev)

\* the other half of the aligned block one bit wider than c (c.size >= 1)
Sibling(c) ==
  [prefix |-> BitXor(c.prefix, Pow2(W - c.size)), size |-> c.size]

\* the aligned block one bit wider than c (c.size >= 1)
Parent(c) ==
  [prefix |-> c.prefix - (c.prefix % Pow2(W - c.size + 1)), size |-> c.size - 1]

\* the block of size d that contains c (d <= c.size)
Ancestor(c, d) ==
  [prefix |-> c.prefix - (c.prefix % Pow2(W - d)), size |-> d]

\* walk emits block c with a payload equal to v
HasRecord(m, c, v) ==
  LET w == walk(m)
  IN  \E k \in 1 .. Len(w) :
        w[k].prefix = c.prefix /\ w[k].size = c.size /\ vequal(w[k].v, v)

\* no block walk emits meets block c
Uncovered(m, c) == \A a \in Block(c) : ~DumpAt(m, a)[1]

\* the records walk emits whose blocks lie outside block c
Outside(m, c) ==
  LET out(r) == Block(r) \cap Block(c) = {}
  IN  SelectSeq(walk(m), out)

\* where a new leaf c with payload v ends up when, in the tree dumped as m,
\* it is merged with its sibling as long as that is a block with an equal
\* payload
RECURSIVE MergedBlock(_, _, _)
MergedBlock(m, c, v) ==
  IF c.size >= 1 /\ HasRecord(m, Sibling(c), v)
  THEN MergedBlock(m, Parent(c), v)
  ELSE c

\* C9: a non-overwrite Add of one half c of an aligned block P into a tree
\* that holds nothing under P leaves c as a block and the other half empty;
\* a non-overwrite Add of the other half with an equal payload, the tree
\* holding nothing else under P, then yields the single block P, which
\* merges on with its sibling while that is a block with an equal payload.
C9_MergeAdjacent ==
  (Called /\ ~last.overwrite /\ last.r.size >= 1) =>
    LET c == last.r
        P == Parent(c)
    IN  /\ Uncovered(prev, P) =>
             /\ HasRecord(mem, c, c.v)
             /\ Uncovered(mem, Sibling(c))
        /\ (Uncovered(prev, c) /\ HasRecord(prev, Sibling(c), c.v)) =>
             /\ HasRecord(mem, MergedBlock(prev, P, c.v), c.v)
             /\ Outside(mem, MergedBlock(prev, P, c.v))
                  = Outside(prev, MergedBlock(prev, P, c.v))
             /\ (P.size = 0 \/ ~HasRecord(prev, Sibling(P), c.v))
                  => HasRecord(mem, P, c.v)
             /\ (P.size >= 1 /\ HasRecord(prev, Sibling(P), c.v))
                  => MergedBlock(prev, P, c.v).size < P.size

\* the second half was added, merged with the first into P, and P merged
\* with its sibling into the block two bits wider than the halves
C9_Witness ==
  /\ Called
  /\ ~last.overwrite
  /\ last.r.size >= 2
  /\ Uncovered(prev, last.r)
  /\ HasRecord(prev, Sibling(last.r), last.r.v)
  /\ HasRecord(prev, Sibling(Parent(last.r)), last.r.v)
  /\ HasRecord(mem, Parent(Parent(last.r)), last.r.v)

\* C10: when Add(b, B, overwrite=true) targets a block b of size s strictly
\* inside a leaf L of size d < s with a different payload A, then Dump
\* contains b with B and exactly s-d further blocks inside L, all with A, the
\* sibling of b's ancestor at each depth d+1..s; they partition L together
\* with b; and the blocks outside L are unchanged.
C10_OverwriteSplits ==
  (Called /\ last.overwrite) =>
    LET b == last.r
        wp == walk(prev)
        w == walk(mem)
    IN  \A j \in 1 .. Len(wp) :
          (/\ wp[j].size < b.size
           /\ Block(b) \subseteq Block(wp[j])
           /\ ~vequal(wp[j].v, b.v)) =>
            LET L == wp[j]
                in == {k \in 1 .. Len(w) : Block(w[k]) \subseteq Block(L)}
                rest == {k \in in : ~(w[k].prefix = b.prefix /\ w[k].size = b.size)}
            IN  /\ HasRecord(mem, b, b.v)
                /\ Cardinality(rest) = b.size - L.size
                /\ \A k \in rest : w[k].v = L.v
                /\ \A d \in (L.size + 1) .. b.size :
                     \E k \in rest :
                       /\ w[k].size = d
                       /\ w[k].prefix = Sibling(Ancestor(b, d)).prefix
                /\ UNION {Block(w[k]) : k \in in} = Block(L)
                /\ \A k1, k2 \in in :
                     k1 # k2 => Block(w[k1]) \cap Block(w[k2]) = {}
                /\ Outside(mem, L) = Outside(prev, L)

\* an overwriting Add went two levels or more into a leaf with another
\* payload, beside which the tree held another block
C10_Witness ==
  /\ Called
  /\ last.overwrite
  /\ \E j \in 1 .. Len(walk(prev)) :
       /\ walk(prev)[j].size + 2 <= last.r.size
       /\ Block(last.r) \subseteq Block(walk(prev)[j])
       /\ ~vequal(walk(prev)[j].v, last.r.v)
  /\ Len(walk(prev)) >= 2
  /\ HasRecord(mem, last.r, last.r.v)

\* the last Add met an inner node at its target and, overwriting, replaced it
ReplaceRan ==
  /\ Called
  /\ last.overwrite
  /\ last.r.size >= 1
  /\ NodeAt(last.r) \in DOMAIN prev
  /\ ~prev[NodeAt(last.r)].leaf
  /\ \A d \in 0 .. last.r.size - 1 :
       ~prev[NodeAt([prefix |-> last.r.prefix, size |-> d])].leaf

\* the records of walk whose blocks lie inside block c and are narrower
StrictlyInside(m, c) ==
  LET w == walk(m)
  IN  {k \in 1 .. Len(w) : w[k].size > c.size /\ Block(w[k]) \subseteq Block(c)}

\* one record of walk, with a payload equal to v, holds the whole of block c
OneLeafOver(m, c, v) ==
  LET w == walk(m)
  IN  \E k \in 1 .. Len(w) :
        /\ Block(c) \subseteq Block(w[k])
        /\ vequal(w[k].v, v)

\* C11: after Add(b, v, overwrite=true) with b of size >= 1 whose node was
\* an inner node, Dump has no block strictly inside b, one leaf with payload
\* v (b or a block it merged into) holds the whole of b, and every address
\* outside b is mapped as before.
C11_OverwriteWider ==
  ReplaceRan =>
    /\ StrictlyInside(mem, last.r) = {}
    /\ OneLeafOver(mem, last.r, last.r.v)
    /\ \A a \in Addr \ Block(last.r) : DumpAt(mem, a) = DumpAt(prev, a)

\* an inner node with two blocks below it was replaced, and another block
\* lies outside it
C11_Witness ==
  /\ ReplaceRan
  /\ Cardinality(StrictlyInside(prev, last.r)) >= 2
  /\ \E a \in Addr \ Block(last.r) : DumpAt(prev, a)[1]
  /\ HasRecord(mem, last.r, last.r.v)

\* every leaf below the node of block c carries a payload equal to v
AllBelowEqual(m, c, v) ==
  \A k \in StrictlyInside(m, c) : vequal(walk(m)[k].v, v)

Leaves(m) == {n \in DOMAIN m : m[n].leaf}

\* the path bits from the root to node n, found by following child pointers
\* upwards: 0 for a left child, 1 for a right child
RECURSIVE PathBits(_, _)
PathBits(m, n) ==
  IF n = Root THEN << >>
  ELSE LET q == CHOOSE x \in DOMAIN m : m[x].l = n \/ m[x].r = n
       IN  Append(PathBits(m, q), IF m[q].r = n THEN 1 ELSE 0)

\* the number a sequence of bits denotes when zero bits follow it up to the
\* width of an address
RECURSIVE BitsValue(_, _)
BitsValue(bits, width) ==
  IF bits = << >> THEN 0
  ELSE Head(bits) * Pow2(width - 1) + BitsValue(Tail(bits), width - 1)

\* the record that stands for leaf n: its depth and its path
LeafRecord(m, n) ==
  [prefix |-> BitsValue(PathBits(m, n), W),
   size   |-> Len(PathBits(m, n)),
   v      |-> m[n].v]

\* C14: Dump emits every leaf exactly once, as a record whose size is the
\* leaf's depth and whose prefix is the path bits from the root followed by
\* zero bits; the emitted blocks are pairwise disjoint and appear in strictly
\* ascending order of prefix.
C14_DumpOrdered ==
  LET w == walk(mem)
  IN  /\ Len(w) = Cardinality(Leaves(mem))
      /\ {w[k] : k \in 1 .. Len(w)} = {LeafRecord(mem, n) : n \in Leaves(mem)}
      /\ Len(Dump(mem)) = Len(w)
      /\ \A i, j \in 1 .. Len(w) :
           i < j => /\ Block(w[i]) \cap Block(w[j]) = {}
                    /\ w[i].prefix < w[j].prefix

\* three leaves at three different depths are dumped
C14_Witness ==
  /\ Called
  /\ Len(walk(mem)) = 3
  /\ {walk(mem)[k].size : k \in 1 .. 3} = {1, 2, 3}
  /\ walk(mem)[1].size = 3

\* the descent of the last Add, replayed on the tree before it
LastDescent == addLoop(prev, Root, 1, last.r.prefix, FALSE, last.r, last.overwrite)

\* C15: no Add panics: whenever Add runs compress (mod is true) the current
\* node is a leaf, and the node taken from the target branch is never absent.
C15_AddNeverPanics ==
  /\ ~panicked
  /\ Called =>
       /\ ~LastDescent.fault
       /\ LastDescent.n # Nil
       /\ LastDescent.mod => LastDescent.mem[LastDescent.n].leaf
       /\ ~TreeAdd(prev, last.r, last.overwrite).panic
       /\ ~TreeAdd(prev, last.r, last.overwrite).absent

\* an overwriting Add split a leaf of depth 1 down to the deepest level and
\* ran compress on the new leaf
C15_Witness ==
  /\ ~panicked
  /\ Called
  /\ LastDescent.mod
  /\ last.r.size = W
  /\ last.overwrite
  /\ \E n \in Leaves(prev) : n < Pow2(W - 1) /\ NodeAt(last.r) \div 4 = n
  /\ mem # prev

\* the leaf of the tree, wider than block c, that holds block c
WiderLeaf(m, c) ==
  {k \in 1 .. Len(walk(m)) :
     walk(m)[k].size < c.size /\ Block(c) \subseteq Block(walk(m)[k])}

\* the last Add put a block inside a wider leaf, with overwrite false or
\* with a payload equal to the leaf's
InsideLeaf ==
  /\ Called
  /\ \E k \in WiderLeaf(prev, last.r) :
       ~last.overwrite \/ vequal(walk(prev)[k].v, last.r.v)

\* C16: an Add of a block inside an existing wider leaf, with overwrite false
\* or with a payload equal to the leaf's, leaves the tree unchanged: the same
\* nodes, the same Dump, no split and no compression (mod stays false).
C16_InsideLeafNoChange ==
  InsideLeaf =>
    /\ mem = prev
    /\ Dump(mem) = Dump(prev)
    /\ ~LastDescent.mod
    /\ LastDescent.mem = prev

\* a block two levels below a leaf with a different payload was added
\* without overwrite, in a tree with a second leaf
C16_Witness ==
  /\ InsideLeaf
  /\ \E k \in WiderLeaf(prev, last.r) :
       /\ walk(prev)[k].size + 2 = last.r.size
       /\ ~last.overwrite
       /\ ~vequal(walk(prev)[k].v, last.r.v)
  /\ Len(walk(prev)) >= 2

\* each node is a leaf without children or a non-leaf without a payload
Shape(m) ==
  \A n \in DOMAIN m :
    /\ m[n].leaf => (m[n].l = Nil /\ m[n].r = Nil)
    /\ ~m[n].leaf => m[n].v = NilPayload

\* C17: after every Add, and after the fill or the split of an Add before
\* its compress, each node is a leaf with both children absent or a non-leaf
\* whose payload is unset; no node is a leaf and has a child.
C17_NodeShape ==
  /\ Shape(mem)
  /\ Called => Shape(Collect(LastDescent.mem))

\* a leaf with a payload was split and its node is an inner node afterwards
C17_Witness ==
  /\ Called
  /\ \E n \in Leaves(prev) :
       /\ prev[n].v # NilPayload
       /\ n \in DOMAIN mem
       /\ ~mem[n].leaf
       /\ mem[n].l # Nil
       /\ mem[n].r # Nil

\* C18: Lookup of any address returns (payload, true) or (nil, false) within
\* W descent steps and never reaches its panic.
C18_LookupNoPanic ==
  \A a \in Addr :
    /\ Lookup(mem, a) # Panic
    /\ Lookup(mem, a)[2] \in BOOLEAN
    /\ ~Lookup(mem, a)[2] => Lookup(mem, a)[1] = NilPayload

\* one Lookup finds a leaf at the last step, another meets an absent child
\* at the last step
C18_Witness ==
  /\ \E a \in Addr :
       /\ Lookup(mem, a)[2]
       /\ NodeAt([prefix |-> a, size |-> W]) \in Leaves(mem)
  /\ \E a \in Addr :
       /\ ~Lookup(mem, a)[2]
       /\ NodeAt([prefix |-> a, size |-> W - 1]) \in DOMAIN mem
       /\ ~mem[NodeAt([prefix |-> a, size |-> W - 1])].leaf

\* the addresses of block c that no leaf of tree m covers
Gaps(m, c) == {a \in Block(c) : ~DumpAt(m, a)[1]}

\* C19: after Add(b, v, overwrite=false) with b of size >= 1, every address
\* of b that no leaf covered before the call is covered by a leaf with a
\* payload equal to v afterwards, at every depth below b.
C19_FillsGaps ==
  (Called /\ ~last.overwrite /\ last.r.size >= 1) =>
    \A a \in Gaps(prev, last.r) :
      /\ DumpAt(mem, a)[1]
      /\ vequal(DumpAt(mem, a)[2], last.r.v)

\* fill met absent children at two depths below b and left other leaves as
\* they were
C19_Witness ==
  /\ FillRan
  /\ last.r.size = 1
  /\ \E a, b \in Gaps(prev, last.r) :
       /\ LeafRecord(mem, CHOOSE n \in Leaves(mem) : a \in Block(LeafRecord(mem, n))).size = 2
       /\ LeafRecord(mem, CHOOSE n \in Leaves(mem) : b \in Block(LeafRecord(mem, n))).size = 3
  /\ \E a \in Block(last.r) : DumpAt(mem, a)[1] /\ ~vequal(DumpAt(mem, a)[2], last.r.v)

\* the records of set S in ascending order of prefix, the wider block first
\* among those with one prefix
RECURSIVE SortedSeq(_)
SortedSeq(S) ==
  IF S = {} THEN << >>
  ELSE LET r == CHOOSE x \in S : \A y \in S :
                  x.prefix < y.prefix \/ (x.prefix = y.prefix /\ x.size <= y.size)
       IN  << r >> \o SortedSeq(S \ {r})

\* the tree after the records of a sequence were added in turn, without
\* overwrite
RECURSIVE AddAll(_, _)
AddAll(m, rs) ==
  IF rs = << >> THEN m
  ELSE AddAll(TreeAdd(m, Head(rs), FALSE).mem, Tail(rs))

\* block c with payload v is a block of S, or its two halves are built from
\* blocks of S with payloads equal to v
RECURSIVE Built(_, _, _)
Built(c, v, S) ==
  \/ \E r \in S : r.prefix = c.prefix /\ r.size = c.size /\ vequal(r.v, v)
  \/ /\ c.size < W
     /\ Built([prefix |-> c.prefix, size |-> c.size + 1], v, S)
     /\ Built([prefix |-> c.prefix + Pow2(W - c.size - 1), size |-> c.size + 1], v, S)

\* C13: pairwise disjoint blocks added without overwrite to an empty tree give
\* the same Dump in every order (the Dump of adding them by ascending prefix),
\* and a dumped block is a block added or is made of two halves that merged:
\* blocks that are not the two halves of one aligned block are never merged.
C13_OrderIrrelevant ==
  LET t == AddAll(NewTable, SortedSeq(chosen \ pending))
      w == walk(mem)
  IN  /\ Dump(mem) = Dump(t)
      /\ w = walk(t)
      /\ \A k \in 1 .. Len(w) : Built(w[k], w[k].v, chosen \ pending)

\* three blocks with one payload were added, the lowest last; two of them
\* merged and the third, next to them, stayed apart
C13_Witness ==
  /\ pending = {}
  /\ Cardinality(chosen) = 3
  /\ Len(walk(mem)) = 2
  /\ \A k \in 1 .. 2 : walk(mem)[k].v = "A"
  /\ walk(mem)[1].size = 2
  /\ walk(mem)[2].size = 3
  /\ walk(mem)[2].prefix = walk(mem)[1].prefix + 2
  /\ last.r.prefix = walk(mem)[1].prefix

\* the number of addresses of the range from a to b
RangeSize(a, b) == b - a + 1

\* the last split made cut its range [lo, hi] at a point mid with
\* lo < mid <= hi, and mid - 1 did not wrap around
SplitOK ==
  split.made =>
    /\ split.lo < split.mid
    /\ split.mid <= split.hi
    /\ split.mid >= 1
    /\ Dec(split.mid, RW) = split.mid - 1
    /\ RangeSize(split.lo, split.mid - 1) >= 1
    /\ RangeSize(split.mid, split.hi) >= 1
    /\ RangeSize(split.lo, split.mid - 1) < RangeSize(split.lo, split.hi)
    /\ RangeSize(split.mid, split.hi) < RangeSize(split.lo, split.hi)

\* every call still to be made has RW-bit arguments, and once a split was
\* made (the first call is over) has them in order
StackOK ==
  \A k \in 1 .. Len(stack) :
    /\ stack[k].a \in RAddr
    /\ stack[k].b \in RAddr
    /\ (split.made => stack[k].a <= stack[k].b)

RangeDone == stack = << >>

\* C20: for every pair (low, high) of RW-bit addresses rangeToSubnet
\* terminates, and whenever it recurses the split point mid satisfies
\* low < mid <= high, both sub-ranges are non-empty and strictly smaller than
\* the range, and mid - 1 does not underflow.
C20_RangeTerminates == [](SplitOK /\ StackOK) /\ <>RangeDone

\* the call on 0 and 2^RW - 2 split at every level, returned, and its result
\* is that of the recursive function
C20_Witness ==
  /\ RangeDone
  /\ low = 0
  /\ high = Pow2(RW) - 2
  /\ split.made
  /\ Len(cidrs) = RW
  /\ cidrs = rangeToSubnet(low, high)

\* every present child refers back to its parent, and the root to none
ParentsOK(m) ==
  /\ m[Root].p = Nil
  /\ \A n \in DOMAIN m :
       /\ m[n].l # Nil => (m[n].l \in DOMAIN m /\ m[m[n].l].p = n)
       /\ m[n].r # Nil => (m[n].r \in DOMAIN m /\ m[m[n].r].p = n)

\* the nodes met by following parent references upwards from n
RECURSIVE UpFrom(_, _)
UpFrom(m, n) == IF m[n].p = Nil THEN {} ELSE {m[n].p} \cup UpFrom(m, m[n].p)

\* the nodes on the path of child pointers from the root down to n
PathNodes(m, n) == {q \in DOMAIN m : q # n /\ n \in Reach(m, q)}

\* C23: after every Add (and in the tree its descent hands to compress) each
\* present child's parent reference is its parent and the root has none;
\* compress, started at the node the descent ended at, rewrites only nodes
\* that are ancestors of it.
C23_ParentRefs ==
  /\ ParentsOK(mem)
  /\ Called =>
       LET d == LastDescent
           t == Collect(d.mem)
       IN  /\ ParentsOK(t)
           /\ d.mod =>
                /\ UpFrom(t, d.n) = PathNodes(t, d.n)
                /\ \A n \in DOMAIN t :
                     (n \in DOMAIN mem /\ mem[n] # t[n]) => n \in UpFrom(t, d.n)

\* compress rewrote two ancestors of a leaf at the deepest level
C23_Witness ==
  /\ Called
  /\ LastDescent.mod
  /\ LastDescent.n >= Pow2(W)
  /\ Cardinality({n \in DOMAIN mem : mem[n] # Collect(LastDescent.mem)[n]}) = 1
  /\ Cardinality(DOMAIN Collect(LastDescent.mem)) = Cardinality(DOMAIN mem) + 4

\* C25: the mapping Dump's blocks denote equals the flat map M the calls
\* describe: Add(b, v, true) sets M[a] = v for every a in b, Add(b, v, false)
\* only for the a in b not yet in M.
C25_RefinesFlatMap ==
  \A a \in Addr :
    DumpAt(mem, a) = IF flat[a] = Unset THEN DumpAt(NewTable, a)
                                       ELSE <<TRUE, flat[a]>>

\* C26: immediately after Add(b, v, overwrite), for b of any size from 0 to
\* W, every address of b lies in a block Dump emits.
C26_BlockCovered ==
  Called => \A a \in Block(last.r) : DumpAt(mem, a)[1]

\* C27: every address outside the block of the last Add is mapped by Dump's
\* blocks to the same payload, or stays uncovered, as before the call.
C27_FrameOutside ==
  Called => \A a \in Addr \ Block(last.r) : DumpAt(mem, a) = DumpAt(prev, a)

\* an overwriting Add split a leaf two levels above its block, whose payload
\* differed, in a tree with another leaf
C27_Witness ==
  /\ Called
  /\ last.overwrite
  /\ \E k \in WiderLeaf(prev, last.r) :
       /\ ~vequal(walk(prev)[k].v, last.r.v)
       /\ walk(prev)[k].size + 2 = last.r.size
  /\ Len(walk(prev)) >= 2
  /\ Len(walk(mem)) = Len(walk(prev)) + 2
  /\ \E a \in Addr \ Block(last.r) : DumpAt(prev, a)[1]

\* C28: an address Lookup found before an Add is found after it.
C28_LookupMonotone ==
  Called => \A a \in Addr : Lookup(prev, a)[2] => Lookup(mem, a)[2]

\* C30: every non-leaf node but the root has a child, no node lies deeper
\* than W, and every node at depth W is a leaf.
C30_NoDangling ==
  \A n \in DOMAIN mem :
    /\ (~mem[n].leaf /\ n # Root) => (mem[n].l # Nil \/ mem[n].r # Nil)
    /\ ~mem[n].leaf => Leaves(mem) \cap Reach(mem, n) # {} \/ n = Root
    /\ Len(PathBits(mem, n)) <= W
    /\ Len(PathBits(mem, n)) = W => mem[n].leaf

\* an Add made two inner nodes on its way to a leaf at depth W, beside an
\* inner node that has one child only
C30_Witness ==
  /\ Called
  /\ \E n \in Leaves(mem) : Len(PathBits(mem, n)) = W /\ n \notin DOMAIN prev
  /\ Cardinality(DOMAIN mem \ Leaves(mem)) >= 4
  /\ \E n \in DOMAIN mem \ {Root} : ~mem[n].leaf /\ mem[n].l = Nil

\* the W-bit number whose top n bits are set and whose other bits are zero
RECURSIVE TopBits(_)
TopBits(n) == IF n = 0 THEN 0 ELSE Pow2(W - n) + TopBits(n - 1)

\* C24: for every size n from 0 to W, sizeToMask(n) has exactly the top n
\* bits set (0 for n = 0, all ones for n = W), so every record built by
\* NewRecordFromCIDR has a prefix whose low W - n bits are zero and whose top
\* n bits are those of the address given.
C24_CanonicalMask ==
  /\ \A n \in 0 .. W : sizeToMask(n) = TopBits(n)
  /\ sizeToMask(0) = 0
  /\ sizeToMask(W) = Pow2(W) - 1
  /\ rec.made =>
       /\ rec.size = ipnet.size
       /\ rec.prefix % Pow2(W - rec.size) = 0
       /\ rec.prefix \div Pow2(W - rec.size) = ipnet.ip \div Pow2(W - rec.size)

\* a record was built from the address of all ones with size 1
C24_Witness ==
  /\ rec.made
  /\ ipnet.ip = Pow2(W) - 1
  /\ ipnet.size = 1
  /\ rec.prefix = Pow2(W - 1)

\* C21: fill takes a leaf for resolved whenever vequal (the payloads' Equal)
\* says its payload equals the new one: a non-overwriting Add of a block over
\* an inner node whose leaves all carry payloads equal to v collapses them
\* into one leaf holding the whole block, as compress would merge them.
C21_FillUsesEqual ==
  (FillRan /\ AllBelowEqual(prev, last.r, last.r.v)) =>
    /\ StrictlyInside(mem, last.r) = {}
    /\ OneLeafOver(mem, last.r, last.r.v)

\* C29: blocks that all carry one payload, overlapping or nested, added
\* without overwrite to an empty tree give the same Dump in every order (the
\* Dump of adding them by ascending prefix, wider blocks first).
C29_SameOrderIrrelevant ==
  pending = {} =>
    /\ Dump(mem) = Dump(AddAll(NewTable, SortedSeq(chosen)))
    /\ walk(mem) = walk(AddAll(NewTable, SortedSeq(chosen)))

\* the tree after the running Add, as the Add made in one step gives it
After == TreeAdd(prev, last.r, TRUE).mem

\* the leaf of the tree before the Add, which the Add splits
SplitNode == CHOOSE n \in Leaves(prev) : TRUE

\* the number of the write that attaches the child of the split node on the
\* side of the address looked up: the second for the target side, the fifth
\* for the other side
AttachWrite ==
  LET d == Len(PathBits(prev, SplitNode))
      bit(x) == (x \div Pow2(W - d - 1)) % 2
  IN  IF bit(rd.ip) = bit(last.r.prefix) THEN 2 ELSE 5

\* Lookup read the leaf flag of the split node when it was clear, and made
\* its next read before the child on its side was attached
Window ==
  /\ rd.flag.n = SplitNode
  /\ rd.next.n = SplitNode
  /\ rd.next.w < AttachWrite

\* C22: Add is not safe beside Lookup: a Lookup of an address inside the leaf
\* an overwriting Add splits, whose reads fall between the write that clears
\* the leaf flag and the write that attaches the child, returns not-found
\* though the address is found in the tree before the Add and in the tree
\* after it.  (A Lookup whose reads all come before the first write or after
\* the last returns what it returns on the tree before or after; the writes
\* end in the tree Add gives in one step.)
C22_TornLookup ==
  /\ wpc = Len(Writes) => mem = After
  /\ (rd.pc = "done" /\ rd.before) => rd.res = Lookup(prev, rd.ip)
  /\ (rd.pc = "done" /\ rd.after) => rd.res = Lookup(After, rd.ip)
  /\ (rd.pc = "done" /\ Window) =>
       /\ rd.res = <<NilPayload, FALSE>>
       /\ Lookup(prev, rd.ip)[2]
       /\ Lookup(After, rd.ip)[2]
       /\ rd.res # Lookup(prev, rd.ip)
       /\ rd.res # Lookup(After, rd.ip)

\* the Add has finished and the Lookup beside it returned not-found from
\* inside the window
C22_Witness ==
  /\ rd.pc = "done"
  /\ Window
  /\ wpc = Len(Writes)
  /\ rd.res = <<NilPayload, FALSE>>
  /\ Lookup(prev, rd.ip)[2]
  /\ Lookup(mem, rd.ip)[2]

====
